---- MODULE Spec2Model ----
(***************************************************************************)
(* Efficient Spectral Hashing, manifold solvers                            *)
(* (src/ESH_manifold/Efficient_SH_with_manifold_ours.py).                  *)
(*                                                                         *)
(* SpecNum  the plain solver computed on small matrices in exact rational  *)
(*          arithmetic: cost_fn, its gradient, the Cayley retraction and   *)
(*          the step-size update, for short runs.                          *)
(* Spec     the control flow of ESH_manifold and ESH_generalized_manifold: *)
(*          argument handling, the main loop, the convergence check, the   *)
(*          step-size update and the return.  Costs are inputs of the      *)
(*          environment (the cost function and the differentiation engine  *)
(*          are evaluated by TensorFlow); numbers are IEEE values: finite  *)
(*          rationals, NaN or +-Inf.                                       *)
(***************************************************************************)
EXTENDS Integers, Sequences, FiniteSets, TLC

(* ------------------------------ bounds -------------------------------- *)
\* largest maxiter explored with well-formed arguments
MaxIter == 21
\* largest maxiter explored when the arguments (K, W0, Z) vary
MaxIterArgs == 2
\* largest feature dimension d explored when the arguments vary
MaxD == 2
\* how many times the cost may differ from the previous iteration's cost
MaxJumps == 1
\* largest numerator or denominator of an entry of W or of lr that a state keeps
MaxMag == 30000
\* largest maxiter of the runs computed with exact matrices
MaxIterNum == 2

(* ------------------------- program constants -------------------------- *)
\* `it % 10 == 0` and `cost_values[it - 10]`
CheckEvery == 10
\* `np.abs(convg_check) < 1e-4`: the tolerance is 1 / TolDen
TolDen == 10000

VARIABLES
  solver,       \* "plain" (ESH_manifold) or "generalized"
  args,         \* the call's arguments: maxiter, K, d, W0, alphaGiven, zRowsOk
  pc,           \* position in the function
  it,           \* the loop variable; -1 while unbound
  cost_values,  \* np.zeros((maxiter,)), filled at index it (here it + 1)
  W,            \* the tf.Variable: its shape and whether its entries are finite
  grad,         \* "fin" / "nan": the gradient of the current iteration
  lr,           \* "lr0" (the caller's), "bb" (recomputed, finite), "div0" (NaN or
                \* Inf of a zero denominator), "nan" (of non-finite operands)
  qLr,          \* the lr the last Cayley factor Q was formed with ("none" before)
  nAssign,      \* number of W.assign(Q W) executed (line 106 / 172)
  nLr,          \* number of lr recomputations executed (line 119)
  broke,        \* the loop was left by `break`
  ret,          \* <<>> or <<[W, cost]>>: the returned pair
  err,          \* "none" or the kind of exception raised
  jumps,        \* cost changes still allowed to the environment
  data,         \* SpecNum: train_features, Affinity, alpha, maxiter
  num           \* SpecNum: pc, it, W, W_old, grad, lr, cost_values, M_it, Y_it, ret

loopVars == <<solver, args, pc, it, cost_values, W, grad, lr, qLr, nAssign,
              nLr, broke, ret, err, jumps>>
numVars == <<data, num>>
vars == <<loopVars, numVars>>

(* ------------------------------ numbers ------------------------------- *)
(* A number is an IEEE value: a finite rational n/d in lowest terms (d > 0), *)
(* NaN, or +-Inf (n is the sign).  Rounding is not modelled.  "big" marks    *)
(* a value whose computation would leave the range the model computes in.    *)
Fin(x) == [cls |-> "fin", n |-> x, d |-> 1]
NaN == [cls |-> "nan", n |-> 0, d |-> 1]
Inf(s) == [cls |-> "inf", n |-> s, d |-> 1]
Big == [cls |-> "big", n |-> 0, d |-> 1]

Sgn(x) == IF x > 0 THEN 1 ELSE IF x < 0 THEN -1 ELSE 0
AbsInt(x) == IF x < 0 THEN -x ELSE x

RECURSIVE Gcd(_, _)
Gcd(a, b) == IF b = 0 THEN a ELSE Gcd(b, a % b)

\* the rational n/d (d # 0) in lowest terms
Frac(n, d) ==
  LET g == Gcd(AbsInt(n), AbsInt(d))
  IN [cls |-> "fin", n |-> Sgn(d) * (n \div g), d |-> AbsInt(d) \div g]

\* the largest integer the arithmetic below produces
IntMax == 2 * 1000000000

\* x * y stays within IntMax / 2
FitsMul(x, y) == x = 0 \/ y = 0 \/ AbsInt(x) <= (IntMax \div 2) \div AbsInt(y)

RNeg(a) == IF a.cls \in {"fin", "inf"} THEN [a EXCEPT !.n = -a.n] ELSE a

\* the sum of two finite rationals over the least common denominator
FinAdd(a, b) ==
  LET g == Gcd(a.d, b.d)
      ma == b.d \div g
      mb == a.d \div g
  IN IF FitsMul(a.n, ma) /\ FitsMul(b.n, mb) /\ FitsMul(a.d, ma)
     THEN Frac(a.n * ma + b.n * mb, a.d * ma)
     ELSE Big

\* the product of two finite rationals, cancelled crosswise first
FinMul(a, b) ==
  IF a.n = 0 \/ b.n = 0 THEN Fin(0)
  ELSE LET g1 == Gcd(AbsInt(a.n), b.d)
           g2 == Gcd(AbsInt(b.n), a.d)
           n1 == a.n \div g1
           n2 == b.n \div g2
           d1 == a.d \div g2
           d2 == b.d \div g1
       IN IF FitsMul(n1, n2) /\ FitsMul(d1, d2)
          THEN [cls |-> "fin", n |-> n1 * n2, d |-> d1 * d2]
          ELSE Big

RAdd(a, b) ==
  IF a.cls = "big" \/ b.cls = "big" THEN Big
  ELSE IF a.cls = "nan" \/ b.cls = "nan" THEN NaN
  ELSE IF a.cls = "inf" /\ b.cls = "inf"
       THEN (IF a.n = b.n THEN a ELSE NaN)
  ELSE IF a.cls = "inf" THEN a
  ELSE IF b.cls = "inf" THEN b
  ELSE FinAdd(a, b)

RSub(a, b) == RAdd(a, RNeg(b))

RMul(a, b) ==
  IF a.cls = "big" \/ b.cls = "big" THEN Big
  ELSE IF a.cls = "nan" \/ b.cls = "nan" THEN NaN
  ELSE IF a.cls = "inf" \/ b.cls = "inf"
       THEN (IF a.n = 0 \/ b.n = 0 THEN NaN ELSE Inf(Sgn(a.n) * Sgn(b.n)))
  ELSE FinMul(a, b)

\* a / b: a zero divisor gives NaN or Inf, never an exception (numpy warns,
\* TensorFlow is silent)
RDiv(a, b) ==
  IF a.cls = "big" \/ b.cls = "big" THEN Big
  ELSE IF a.cls = "nan" \/ b.cls = "nan" THEN NaN
  ELSE IF a.cls = "inf" /\ b.cls = "inf" THEN NaN
  ELSE IF a.cls = "inf" THEN Inf(IF b.n < 0 THEN -a.n ELSE a.n)
  ELSE IF b.cls = "inf" THEN Fin(0)
  ELSE IF b.n = 0 THEN (IF a.n = 0 THEN NaN ELSE Inf(Sgn(a.n)))
  ELSE FinMul(a, [cls |-> "fin", n |-> Sgn(b.n) * b.d, d |-> AbsInt(b.n)])

\* np.abs / tf.abs
RAbs(a) == IF a.cls \in {"fin", "inf"} THEN [a EXCEPT !.n = AbsInt(a.n)] ELSE a

\* tf.sign of a finite number
RSign(a) == IF a.cls \in {"fin", "inf"} THEN Fin(Sgn(a.n)) ELSE a

\* x < 1e-4 (any comparison with NaN is False)
LessTol(x) ==
  \/ x.cls = "fin" /\ x.n <= (x.d - 1) \div TolDen
  \/ x.cls = "inf" /\ x.n < 0


(* ------------------------------ matrices ------------------------------ *)
(* A matrix is the sequence of its rows; its entries are numbers.          *)
\* the sequence q with every element computed (a function constructor alone
\* is evaluated again at each application)
Computed(q) == q \o <<>>

Rows(M) == Len(M)
Cols(M) == Len(M[1])

RECURSIVE SumSeq(_)
SumSeq(q) == IF q = <<>> THEN Fin(0) ELSE RAdd(Head(q), SumSeq(Tail(q)))

\* tf.transpose
transpose(M) ==
  Computed([j \in 1..Cols(M) |-> Computed([i \in 1..Rows(M) |-> M[i][j]])])

\* lin.matmul
matmul(A, B) ==
  Computed([i \in 1..Rows(A) |->
    Computed([j \in 1..Cols(B) |->
      SumSeq(Computed([k \in 1..Cols(A) |-> RMul(A[i][k], B[k][j])]))])])

\* lin.trace
trace(M) == SumSeq(Computed([i \in 1..Rows(M) |-> M[i][i]]))

\* lin.eye
eye(n) ==
  Computed([i \in 1..n |->
    Computed([j \in 1..n |-> IF i = j THEN Fin(1) ELSE Fin(0)])])

MatAdd(A, B) ==
  Computed([i \in 1..Rows(A) |->
    Computed([j \in 1..Cols(A) |-> RAdd(A[i][j], B[i][j])])])
MatSub(A, B) ==
  Computed([i \in 1..Rows(A) |->
    Computed([j \in 1..Cols(A) |-> RSub(A[i][j], B[i][j])])])
MatScale(c, A) ==
  Computed([i \in 1..Rows(A) |->
    Computed([j \in 1..Cols(A) |-> RMul(c, A[i][j])])])

Entries(M) == { M[i][j] : i \in 1..Rows(M), j \in 1..Cols(M) }
AllFinite(M) == \A x \in Entries(M) : x.cls = "fin"
HasBig(M) == \E x \in Entries(M) : x.cls = "big"
NaNMatrix(r, c) == Computed([i \in 1..r |-> Computed([j \in 1..c |-> NaN])])

\* M without row i and column j
Minor(M, i, j) ==
  Computed([a \in 1..(Rows(M) - 1) |->
    Computed([b \in 1..(Cols(M) - 1) |->
      M[IF a < i THEN a ELSE a + 1][IF b < j THEN b ELSE b + 1]])])

RECURSIVE Det(_)
Det(M) ==
  IF Rows(M) = 1 THEN M[1][1]
  ELSE SumSeq(Computed([j \in 1..Cols(M) |->
         RMul(IF j % 2 = 1 THEN M[1][j] ELSE RNeg(M[1][j]), Det(Minor(M, 1, j)))]))

Cofactor(M, i, j) ==
  IF Rows(M) = 1 THEN Fin(1)
  ELSE IF (i + j) % 2 = 0 THEN Det(Minor(M, i, j)) ELSE RNeg(Det(Minor(M, i, j)))

\* lin.inv of a matrix of finite entries with a non-zero determinant
inv(M) ==
  LET dt == Det(M)
  IN Computed([i \in 1..Rows(M) |->
       Computed([j \in 1..Cols(M) |-> RDiv(Cofactor(M, j, i), dt)])])

(* ------------------------ the numerical functions --------------------- *)
\* lines 18-22, Zn being normalize_Z(Z)
get_feature_affinity(train_features, Zn) ==
  LET L == matmul(transpose(train_features), Zn)
  IN matmul(L, transpose(L))

\* square of the Frobenius norm of |P| - 1 (lines 38-39, 58-59)
RegTerm(P) ==
  SumSeq(Computed([i \in 1..Rows(P) |->
    SumSeq(Computed([j \in 1..Cols(P) |->
      LET v == RSub(RAbs(P[i][j]), Fin(1)) IN RMul(v, v)]))]))

\* lines 34-41
cost_fn(train_features, Wm, Affinity, alpha) ==
  LET main_cost == RNeg(trace(matmul(transpose(Wm), matmul(Affinity, Wm))))
      reg == RegTerm(matmul(train_features, Wm))
  IN RDiv(RAdd(main_cost, RMul(RMul(Frac(1, 2), alpha), reg)),
          Fin(Rows(train_features)))

\* lines 55-61
compute_alpha(train_features, Wm, Affinity) ==
  LET main_cost == RNeg(trace(matmul(transpose(Wm), matmul(Affinity, Wm))))
      reg == RegTerm(matmul(train_features, Wm))
  IN RAbs(RDiv(RMul(Fin(2), main_cost), reg))

\* lines 94-99: tape.gradient(cost, W), the derivative of cost_fn at Wm:
\*   (-(A + A^T) W + 0.5 alpha X^T (2 (|P| - 1) o sign(P))) / n,  P = X W.
\* The derivative of tf.norm at the zero matrix is 0/0: when |P| - 1 is zero
\* everywhere every entry of the gradient is NaN.
tape_gradient(train_features, Wm, Affinity, alpha) ==
  LET P == matmul(train_features, Wm)
      V == Computed([i \in 1..Rows(P) |-> Computed([j \in 1..Cols(P) |->
              RMul(RMul(Fin(2), RSub(RAbs(P[i][j]), Fin(1))), RSign(P[i][j]))])])
      gmain == MatScale(Fin(-1), matmul(MatAdd(Affinity, transpose(Affinity)), Wm))
      greg == matmul(transpose(train_features), V)
      g == MatAdd(gmain, MatScale(RMul(Frac(1, 2), alpha), greg))
  IN IF RegTerm(P) = Fin(0)
     THEN NaNMatrix(Rows(Wm), Cols(Wm))
     ELSE MatScale(Frac(1, Rows(train_features)), g)

\* lines 44-45
grad_J(g, Wm) == MatSub(g, matmul(matmul(Wm, transpose(g)), Wm))

\* mutant of SkewPart: F0 + F0^T
SkewPartPlus(F0) == MatAdd(F0, transpose(F0))

\* line 103: F = F0 - tf.transpose(F0)
SkewPart(F0) == MatSub(F0, transpose(F0))

\* lines 102-103
CayleyF(g, Wm) == SkewPart(matmul(g, transpose(Wm)))

\* the two factors of Q, line 105
CayleyPlus(F, stepsize) ==
  MatAdd(eye(Rows(F)), MatScale(RMul(stepsize, Frac(1, 2)), F))
CayleyMinus(F, stepsize) ==
  MatSub(eye(Rows(F)), MatScale(RMul(stepsize, Frac(1, 2)), F))

\* lines 117-119: M_it, Y_it and the new lr
M_it(Wm, Wold) == MatSub(Wm, Wold)
Y_it(g, Wm, Wold) == MatSub(grad_J(g, Wm), grad_J(g, Wold))
NewLr(g, Wm, Wold) ==
  RAbs(RDiv(trace(matmul(transpose(M_it(Wm, Wold)), Y_it(g, Wm, Wold))),
            trace(matmul(transpose(Y_it(g, Wm, Wold)), Y_it(g, Wm, Wold)))))

(* ------------------------- convergence check -------------------------- *)
\* mutant of CheckDue: the test is evaluated at every 5th iteration
CheckDueEvery5(i) == i % 5 = 0 /\ i >= CheckEvery

\* line 111 / 177: the iterations at which the test is evaluated
CheckDue(i) == i % CheckEvery = 0 /\ i > 0

\* line 112 / 178
convg_check(cv, i) ==
  RDiv(RSub(cv[i + 1], cv[i - CheckEvery + 1]), cv[i - CheckEvery + 1])

\* line 113 / 179
Converged(cv, i) == LessTol(RAbs(convg_check(cv, i)))

(* ----------------------------- arguments ------------------------------ *)
NoW0 == [given |-> FALSE, rows |-> 0, cols |-> 0]

\* the arguments of the long runs: d = 2, K = 1, no W0, alpha supplied
Canonical(a) ==
  /\ a.d = 2 /\ a.K = 1 /\ a.W0 = NoW0 /\ a.alphaGiven /\ a.zRowsOk

W0Shapes == {NoW0} \cup [given : {TRUE}, rows : 1..MaxD, cols : 1..(MaxD + 1)]

Args ==
  { a \in [maxiter : 0..MaxIter, K : 0..(MaxD + 1), d : 1..MaxD,
           W0 : W0Shapes, alphaGiven : BOOLEAN, zRowsOk : BOOLEAN] :
      /\ a.K <= a.d + 1
      /\ a.maxiter > MaxIterArgs => Canonical(a) }

\* the costs the environment (cost_fn evaluated by TensorFlow) can produce
FiniteCosts == {Fin(-20000), Fin(-20001), Fin(0)}
Costs == FiniteCosts \cup {NaN, Inf(1), Inf(-1)}

Init ==
  /\ solver \in {"plain", "generalized"}
  /\ args \in Args
  /\ (solver = "generalized" => args.W0 = NoW0)
  /\ pc = "setup"
  /\ it = -1
  /\ cost_values = <<>>
  /\ W = [rows |-> 0, cols |-> 0, cls |-> "fin"]
  /\ grad = "fin"
  /\ lr = "lr0"
  /\ qLr = "none"
  /\ nAssign = 0
  /\ nLr = 0
  /\ broke = FALSE
  /\ ret = <<>>
  /\ err = "none"
  /\ jumps = MaxJumps
  /\ data = <<>>
  /\ num = <<>>

(* --------------------------- raise / return --------------------------- *)
\* an exception leaves the function: nothing is returned
Raise(kind) ==
  /\ pc' = "raised"
  /\ err' = kind
  /\ UNCHANGED <<numVars, solver, args, it, cost_values, W, grad, lr, qLr, nAssign,
                 nLr, broke, ret, jumps>>

\* mutant of ReturnValue: the slice cost_values[:it]
ReturnValueShort(w, cv, i) == [W |-> w, cost |-> SubSeq(cv, 1, i)]

\* line 121 / 187: return W.numpy(), cost_values[:it + 1]
ReturnValue(w, cv, i) == [W |-> w, cost |-> SubSeq(cv, 1, i + 1)]

\* scipy's eigsh(A, k) on a dense n x n matrix: k <= 0 raises; k >= n raises
\* (older SciPy) or falls back to the dense solver and returns all n
\* eigenvectors (newer SciPy); otherwise k eigenvectors
eigsh(n, k) ==
  IF k <= 0 THEN {[ok |-> FALSE, cols |-> 0]}
  ELSE IF k >= n THEN {[ok |-> FALSE, cols |-> 0], [ok |-> TRUE, cols |-> n]}
  ELSE {[ok |-> TRUE, cols |-> k]}

\* lines 25-31: the shapes initialize_W can produce (ok = FALSE: eigsh raised);
\* a supplied W is wrapped as it is, K is not looked at
initialize_W(w0, n, k) ==
  IF ~w0.given
  THEN { [ok |-> o.ok, rows |-> n, cols |-> o.cols] : o \in eigsh(n, k) }
  ELSE { [ok |-> TRUE, rows |-> w0.rows, cols |-> w0.cols] }

\* `for it in range(maxiter)` entered after the set-up; with maxiter = 0 the
\* body never runs and line 121 / 187 reads the unbound `it`
EnterLoop ==
  IF args.maxiter > 0
  THEN /\ it' = 0
       /\ pc' = "cost"
       /\ err' = err
  ELSE /\ it' = it
       /\ pc' = "raised"
       /\ err' = "unbound_it"

\* lines 78-89 (ESH_manifold) and 137-154 (ESH_generalized_manifold)
Setup ==
  /\ pc = "setup"
  /\ IF ~args.zRowsOk
     THEN Raise("shape")                          \* line 20: X.T @ Z
     ELSE \E w \in initialize_W(args.W0, args.d, args.K) :
            IF ~w.ok
            THEN Raise("eigsh")
            ELSE IF ~args.alphaGiven /\ w.rows # args.d
            THEN Raise("shape")                   \* line 56: matmul(Affinity, W)
            ELSE /\ W' = [rows |-> w.rows, cols |-> w.cols, cls |-> "fin"]
                 /\ cost_values' = [i \in 1..args.maxiter |-> Fin(0)]
                 /\ EnterLoop
                 /\ UNCHANGED <<numVars, solver, args, grad, lr, qLr, nAssign, nLr,
                                broke, ret, jumps>>

(* ------------------------------ the loop ------------------------------ *)
\* the costs cost_fn can evaluate to in iteration i: NaN once W holds
\* non-finite entries; otherwise the previous cost again, or, while the
\* environment's budget of changes lasts, any cost
CostInputs(i) ==
  IF W.cls # "fin" THEN {NaN}
  ELSE IF i = 0 \/ jumps > 0 THEN Costs
  ELSE {cost_values[i]}

\* lines 93-99 / 158-165: W_old, the cost (recorded at cost_values[it]) and
\* its gradient at W; matmul(Affinity, W) needs W to have d rows
EvalCost ==
  /\ pc = "cost"
  /\ IF W.rows # args.d
     THEN Raise("shape")
     ELSE \E c \in CostInputs(it) :
            /\ cost_values' = [cost_values EXCEPT ![it + 1] = c]
            /\ grad' = IF c.cls = "fin" THEN "fin" ELSE "nan"
            /\ jumps' = IF it > 0 /\ W.cls = "fin" /\ c # cost_values[it]
                        THEN jumps - 1 ELSE jumps
            /\ pc' = "retract"
            /\ UNCHANGED <<numVars, solver, args, it, W, lr, qLr, nAssign, nLr, broke,
                           ret, err>>

\* whether I + lr*0.5*F has only finite entries
FactorFinite == grad = "fin" /\ lr \in {"lr0", "bb"} /\ W.cls = "fin"

\* tf.linalg.inv(I + lr*0.5*F): FALSE when it raises InvalidArgumentError.
\* With finite entries the matrix is I plus a skew-symmetric matrix (plain) or
\* I + a S M with S skew and M positive definite (generalized), which is never
\* singular; with NaN or Inf entries the kernel is either found "not
\* invertible" or returns non-finite entries, depending on the build.
inv_accepts(finite) == IF finite THEN {TRUE} ELSE {TRUE, FALSE}

\* lines 101-106 / 166-172: F, Q = inv(I + lr/2 F)(I - lr/2 F), W.assign(Q W)
Retract ==
  /\ pc = "retract"
  /\ \E ok \in inv_accepts(FactorFinite) :
       IF ~ok
       THEN Raise("not_invertible")
       ELSE /\ W' = [W EXCEPT !.cls = IF FactorFinite THEN "fin" ELSE "nan"]
            /\ qLr' = lr
            /\ nAssign' = nAssign + 1
            /\ pc' = "check"
            /\ UNCHANGED <<numVars, solver, args, it, cost_values, grad, lr, nLr,
                           broke, ret, err, jumps>>

\* mutant of NextIteration: range(maxiter + 1)
NextIterationOffByOne ==
  IF it + 1 < args.maxiter + 1
  THEN /\ it' = it + 1
       /\ pc' = "cost"
       /\ ret' = ret
  ELSE /\ it' = it
       /\ pc' = "returned"
       /\ ret' = <<ReturnValue(W, cost_values, it)>>

\* the `for` header after an iteration that did not break: the next it, or
\* the loop is exhausted and line 121 / 187 returns
NextIteration ==
  IF it + 1 < args.maxiter
  THEN /\ it' = it + 1
       /\ pc' = "cost"
       /\ ret' = ret
  ELSE /\ it' = it
       /\ pc' = "returned"
       /\ ret' = <<ReturnValue(W, cost_values, it)>>

\* mutant of CheckConvergence: lines 183-185 are live, the generalized solver
\* recomputes lr as the plain one does
CheckConvergenceBothAdapt ==
  /\ pc = "check"
  /\ IF CheckDue(it) /\ Converged(cost_values, it)
     THEN /\ broke' = TRUE
          /\ pc' = "returned"
          /\ ret' = <<ReturnValue(W, cost_values, it)>>
          /\ it' = it
     ELSE /\ broke' = broke
          /\ pc' = "adapt" /\ it' = it /\ ret' = ret
  /\ UNCHANGED <<numVars, solver, args, cost_values, W, grad, lr, qLr, nAssign, nLr,
                 err, jumps>>

\* mutant of CheckConvergence: the step size is recomputed before the check,
\* so also in the iteration that breaks
CheckConvergenceAfterLr ==
  /\ pc = "check"
  /\ IF CheckDue(it) /\ Converged(cost_values, it)
     THEN /\ broke' = TRUE
          /\ pc' = "returned"
          /\ ret' = <<ReturnValue(W, cost_values, it)>>
          /\ it' = it
          /\ nLr' = IF solver = "plain" THEN nLr + 1 ELSE nLr
     ELSE /\ broke' = broke
          /\ nLr' = nLr
          /\ IF solver = "plain"
             THEN pc' = "adapt" /\ it' = it /\ ret' = ret
             ELSE NextIteration
  /\ UNCHANGED <<numVars, solver, args, cost_values, W, grad, lr, qLr, nAssign,
                 err, jumps>>

\* lines 110-115 / 176-181: the convergence check; in the generalized solver
\* nothing follows it in the loop body (lines 182-185 are comments)
CheckConvergence ==
  /\ pc = "check"
  /\ IF CheckDue(it) /\ Converged(cost_values, it)
     THEN /\ broke' = TRUE
          /\ pc' = "returned"
          /\ ret' = <<ReturnValue(W, cost_values, it)>>
          /\ it' = it
     ELSE /\ broke' = broke
          /\ IF solver = "plain"
             THEN pc' = "adapt" /\ it' = it /\ ret' = ret
             ELSE NextIteration
  /\ UNCHANGED <<numVars, solver, args, cost_values, W, grad, lr, qLr, nAssign, nLr,
                 err, jumps>>

\* the values of lr after line 119: with finite operands the quotient
\* trace(M_it^T Y_it) / trace(Y_it^T Y_it) is finite unless the denominator
\* is zero, and then it is NaN or Inf (TensorFlow division does not raise)
StepSizes == IF W.cls = "fin" /\ grad = "fin" THEN {"bb", "div0"} ELSE {"nan"}

\* lines 116-119 (plain solver only): M_it, Y_it and the new lr
UpdateLr ==
  /\ pc = "adapt"
  /\ \E s \in StepSizes :
       /\ lr' = s
       /\ nLr' = nLr + 1
       /\ NextIteration
  /\ UNCHANGED <<numVars, solver, args, cost_values, W, grad, qLr, nAssign, broke,
                 err, jumps>>

Next == Setup \/ EvalCost \/ Retract \/ CheckConvergence \/ UpdateLr

Spec == Init /\ [][Next]_vars

(* =========================== SpecNum ================================== *)
(* ESH_manifold on small inputs, every matrix computed exactly.            *)
IntMat(m) ==
  Computed([i \in 1..Len(m) |-> Computed([j \in 1..Len(m[1]) |-> Fin(m[i][j])])])

\* train_features (n x d)
FeatureInputs ==
  { IntMat(<<<<1>>>>), IntMat(<<<<2>>>>),
    IntMat(<<<<1, 0>>>>), IntMat(<<<<1, 1>>>>), IntMat(<<<<2, 1>>>>),
    IntMat(<<<<1, 0>>, <<0, 1>>>>), IntMat(<<<<1, 1>>, <<0, 2>>>>) }

\* normalize_Z(Z) (n x 1): one anchor
AnchorInputs(n) ==
  IF n = 1 THEN { IntMat(<<<<1>>>>) }
  ELSE { IntMat(<<<<1>>, <<0>>>>), MatScale(Frac(1, 2), IntMat(<<<<1>>, <<1>>>>)) }

\* supplied W (d x K) with orthonormal columns
WInputs(dd) ==
  IF dd = 1 THEN { IntMat(<<<<1>>>>), IntMat(<<<<-1>>>>) }
  ELSE { IntMat(<<<<1>>, <<0>>>>), IntMat(<<<<0>>, <<1>>>>),
         MatScale(Frac(1, 5), IntMat(<<<<3>>, <<4>>>>)),
         MatScale(Frac(1, 5), IntMat(<<<<-4>>, <<3>>>>)),
         IntMat(<<<<1, 0>>, <<0, 1>>>>), IntMat(<<<<0, 1>>, <<1, 0>>>>),
         MatScale(Frac(1, 5), IntMat(<<<<3, -4>>, <<4, 3>>>>)) }

\* lr (0.01 is the default) and alpha (<<>> is None)
LrInputs == { Frac(1, 100), Frac(1, 2), Fin(1) }
AlphaInputs == { <<>>, <<Fin(1)>>, <<Fin(2)>> }

\* the loop variables of Spec are not used by SpecNum
LoopIdle ==
  /\ solver = "plain"
  /\ args = [maxiter |-> 0, K |-> 0, d |-> 1, W0 |-> NoW0,
             alphaGiven |-> TRUE, zRowsOk |-> TRUE]
  /\ pc = "idle"
  /\ it = -1
  /\ cost_values = <<>>
  /\ W = [rows |-> 0, cols |-> 0, cls |-> "fin"]
  /\ grad = "fin"
  /\ lr = "lr0"
  /\ qLr = "none"
  /\ nAssign = 0
  /\ nLr = 0
  /\ broke = FALSE
  /\ ret = <<>>
  /\ err = "none"
  /\ jumps = 0

\* the state after lines 78-89, entering the loop with it = 0
InitNum ==
  /\ LoopIdle
  /\ \E X \in FeatureInputs :
     \E Zn \in AnchorInputs(Rows(X)) :
     \E W0 \in WInputs(Cols(X)) :
     \E a \in AlphaInputs :
     \E lr0 \in LrInputs :
     \E mi \in 1..MaxIterNum :
       LET A == get_feature_affinity(X, Zn)
       IN /\ data = [X |-> X, A |-> A, maxiter |-> mi,
                     alpha |-> IF a = <<>> THEN compute_alpha(X, W0, A) ELSE a[1]]
          /\ num = [pc |-> "loop", it |-> 0, W |-> W0, W_old |-> W0,
                    grad |-> <<>>, lr |-> lr0,
                    cost_values |-> [i \in 1..mi |-> Fin(0)],
                    M_it |-> <<>>, Y_it |-> <<>>, ret |-> <<>>]

\* every entry is computed and small enough to be kept in a state
KeepsRange(M) ==
  \A x \in Entries(M) :
    x.cls # "big" /\ AbsInt(x.n) <= MaxMag /\ x.d <= MaxMag

\* lines 107-121 after W.assign(Wnew): the convergence check, the step-size
\* update, the next iteration or the return
AfterAssign(Wnew, cost, g) ==
  LET cv == [num.cost_values EXCEPT ![num.it + 1] = cost]
      i == num.it
  IN IF CheckDue(i) /\ Converged(cv, i)
     THEN num' = [num EXCEPT !.pc = "returned", !.W = Wnew, !.W_old = num.W,
                             !.grad = g, !.cost_values = cv,
                             !.ret = <<ReturnValue(Wnew, cv, i)>>]
     ELSE LET mit == M_it(Wnew, num.W)
              yit == Y_it(g, Wnew, num.W)
              newlr == NewLr(g, Wnew, num.W)
          IN IF i + 1 < data.maxiter
             THEN num' = [num EXCEPT !.it = i + 1, !.W = Wnew, !.W_old = num.W,
                                     !.grad = g, !.cost_values = cv,
                                     !.lr = newlr, !.M_it = mit, !.Y_it = yit]
             ELSE num' = [num EXCEPT !.pc = "returned", !.W = Wnew,
                                     !.W_old = num.W, !.grad = g,
                                     !.cost_values = cv, !.lr = newlr,
                                     !.M_it = mit, !.Y_it = yit,
                                     !.ret = <<ReturnValue(Wnew, cv, i)>>]

\* lines 92-121: one iteration of the main loop of ESH_manifold
Iterate ==
  /\ num.pc = "loop"
  /\ num.lr.cls # "big"
  /\ LET cost == cost_fn(data.X, num.W, data.A, data.alpha)
         g == tape_gradient(data.X, num.W, data.A, data.alpha)
         F == CayleyF(g, num.W)
         Pl == CayleyPlus(F, num.lr)
         Mi == CayleyMinus(F, num.lr)
     IN /\ cost.cls # "big"
        /\ ~HasBig(Pl)
        /\ IF ~AllFinite(Pl)
           THEN \E ok \in inv_accepts(FALSE) :
                  IF ok
                  THEN AfterAssign(NaNMatrix(Rows(num.W), Cols(num.W)), cost, g)
                  ELSE num' = [num EXCEPT !.pc = "raised"]
           ELSE /\ Det(Pl).cls # "big"
                /\ IF Det(Pl) = Fin(0)
                   THEN num' = [num EXCEPT !.pc = "raised"]
                   ELSE LET Wnew == matmul(matmul(inv(Pl), Mi), num.W)
                        IN /\ KeepsRange(Wnew)
                           /\ AfterAssign(Wnew, cost, g)
  /\ UNCHANGED <<loopVars, data>>

NextNum == Iterate

SpecNum == InitNum /\ [][NextNum]_vars

(* ======================= claims checked under Spec ==================== *)
\* cost c differs from the cost c0 of ten iterations earlier by a relative
\* change below 1e-4
RelChangeBelowTol(c, c0) ==
  /\ c.cls = "fin" /\ c0.cls = "fin" /\ c0.n # 0
  /\ AbsInt(c.n - c0.n) * 10000 < AbsInt(c0.n)

\* iteration j is a check boundary at which the recorded costs pass the test
Hit(j) ==
  /\ j % 10 = 0 /\ j >= 10
  /\ RelChangeBelowTol(cost_values[j + 1], cost_values[j - 9])

\* C1: in both solvers the loop is left by `break` only at an iteration it
\* that is a multiple of 10 with it >= 10 and at which
\* |(cost[it] - cost[it-10]) / cost[it-10]| < 1e-4; no earlier check boundary
\* passed the test, no run goes on past a boundary that passes it, and the
\* returned trace then has exactly it + 1 entries.
C1_StopsAtFirstBoundary ==
  /\ broke => /\ pc = "returned"
              /\ Hit(it)
              /\ Len(ret[1].cost) = it + 1
  /\ \A j \in 0..(it - 1) : ~Hit(j)
  /\ (pc = "adapt" \/ (pc = "returned" /\ ~broke)) => ~Hit(it)

\* a solve that failed the test at it = 10 and stopped at it = 20
C1_Witness == pc = "returned" /\ broke /\ it = 20

\* C2 (as claimed): with well-formed arguments and maxiter >= 1, a solve the
\* convergence condition never stops runs exactly maxiter iterations and
\* returns a trace of maxiter entries, without raising an error.
C2_AlwaysExhausted ==
  (Canonical(args) /\ args.maxiter >= 1 /\ ~broke /\ pc \in {"returned", "raised"})
    => (pc = "returned" /\ err = "none" /\ Len(ret[1].cost) = args.maxiter)

\* C2 (amended): with maxiter >= 1 no solve runs more than maxiter iterations;
\* a solve that is neither stopped by the convergence condition nor aborted by
\* an exception raised inside an iteration returns W and a trace of exactly
\* maxiter entries after exactly maxiter iterations; and no exception is
\* raised once the last retraction is done (running out of iterations is not
\* an error).
C2_ExhaustedReturns ==
  args.maxiter >= 1 =>
    /\ it < args.maxiter
    /\ nAssign <= args.maxiter
    /\ (pc = "returned" /\ ~broke) =>
         /\ it = args.maxiter - 1
         /\ nAssign = args.maxiter
         /\ Len(ret[1].cost) = args.maxiter
         /\ ret[1].W = W
         /\ err = "none"
    /\ pc = "raised" => (nAssign < args.maxiter /\ ret = <<>>)

\* a solve that ran past a check boundary and ended exhausted
C2_Witness ==
  pc = "returned" /\ ~broke /\ args.maxiter > CheckEvery /\ Len(ret[1].cost) = args.maxiter

\* K = 0, K > d, or a supplied W0 that is not d x K
PreconditionViolated(a) ==
  \/ a.K = 0
  \/ a.K > a.d
  \/ a.W0.given /\ (a.W0.rows # a.d \/ a.W0.cols # a.K)

\* C6 (as claimed): a precondition violation of the plain solver is rejected
\* before any iteration runs, and nothing is returned.
C6_PreconditionRejected ==
  (solver = "plain" /\ PreconditionViolated(args))
    => (pc \in {"setup", "raised"} /\ it = -1 /\ ret = <<>>)

C9_GeneralizedLrFixed ==
  solver = "generalized" =>
    /\ lr = "lr0"
    /\ nLr = 0
    /\ qLr \in {"none", "lr0"}
    /\ nAssign > 0 => qLr = "lr0"

\* a generalized solve that returned after several iterations
C9_Witness ==
  solver = "generalized" /\ pc = "returned" /\ nAssign > CheckEvery /\ qLr = "lr0"

\* C10: in both solvers, at every return the number of retractions applied
\* to W equals the length of the returned trace, the returned W is the W
\* after the last retraction, and every cost was evaluated before the
\* retraction of its iteration (cost number it at the W of it retractions),
\* so the cost of the returned W is never evaluated.
C10_UpdatesEqualTraceLength ==
  /\ pc = "returned" => /\ nAssign = Len(ret[1].cost)
                        /\ nAssign = it + 1
                        /\ ret[1].W = W
                        /\ \A i \in 1..(it + 1) : ret[1].cost[i] = cost_values[i]
  /\ pc = "retract" => nAssign = it
  /\ pc = "cost" => nAssign = it

\* a return by convergence at it = 10, after eleven retractions
C10_Witness == pc = "returned" /\ broke /\ nAssign = 11 /\ Len(ret[1].cost) = 11

(* ====================== claims checked under SpecNum ================== *)
\* C3 (as claimed): a run that recorded a NaN or Inf cost never returns a
\* (W, cost_trace) pair.
C3_NonFiniteCostFails ==
  num.pc = "returned" =>
    \A i \in 1..Len(num.ret[1].cost) : num.ret[1].cost[i].cls \in {"fin", "big"}

\* the step-size update of the last iteration divided by zero
ZeroDenominator ==
  /\ num.Y_it # <<>>
  /\ AllFinite(num.Y_it)
  /\ trace(matmul(transpose(num.Y_it), num.Y_it)) = Fin(0)

\* C4 (as claimed): in the plain solver a zero denominator
\* trace(Y_it^T Y_it) in the step-size update aborts the solve with an error:
\* the solve neither goes on to another iteration nor returns.
C4_ZeroDenominatorAborts == ZeroDenominator => num.pc = "raised"

Gram(Wm) == matmul(transpose(Wm), Wm)

\* C5: the initial W has orthonormal columns, and after every retraction
\* W <- Q W of the plain solver, whatever the gradient and the step size,
\* W^T W = I_K still holds exactly (W with NaN entries, the result of a
\* non-finite Cayley factor, apart).
C5_OrthogonalityPreserved ==
  AllFinite(num.W) => Gram(num.W) = eye(Cols(num.W))

\* two retractions, the second with a recomputed step size, that both moved W
C5_Witness ==
  /\ num.pc = "returned"
  /\ Len(num.ret[1].cost) = 2
  /\ AllFinite(num.W)
  /\ num.W # num.W_old
  /\ num.W_old \notin WInputs(Rows(num.W))

\* the gradient displacement of section 4.6 for the last update: the
\* gradient at the new W against the gradient at W_old
ClaimedY ==
  MatSub(grad_J(tape_gradient(data.X, num.W, data.A, data.alpha), num.W),
         grad_J(num.grad, num.W_old))

\* C7 (as claimed): the step-size update uses
\* Y_it = grad_J(G, W) - grad_J(G_old, W_old) with G the gradient evaluated
\* at the new W and G_old the gradient evaluated at W_old.
C7_TwoGradientEvaluations ==
  (num.Y_it # <<>> /\ AllFinite(num.Y_it) /\ AllFinite(ClaimedY))
    => num.Y_it = ClaimedY

====
